---- MODULE Spec2Model ----
(***************************************************************************)
(* Model of src/bot.py: the barcode scan (detect_multi_barcodes and its    *)
(* helpers) and the part of the Telegram conversation that leads to it     *)
(* (sessions, location, inventory code, mode, photo handler).              *)
(*                                                                         *)
(* Strings are sequences of one-character strings, so that the regular     *)
(* expression of is_our_barcode and str.strip are computed, not assumed.   *)
(* A Python set is a sequence without repetition kept in the iteration     *)
(* order of the process's string hash (hashseed); list(set) is that        *)
(* sequence.  An array handed to the symbol decoder is described by what   *)
(* zbar reads from it at each rotation angle.                              *)
(***************************************************************************)
EXTENDS Integers, Sequences, FiniteSets, TLC

VARIABLES
    user_state,     \* dict chat_id -> conversation state        (bot.py:61)
    user_data,      \* dict chat_id -> session record            (bot.py:60)
    hashseed,       \* the process's string-hash order (PYTHONHASHSEED)
    sent,           \* messages sent by the handler that ran last
    handler_exc,    \* exception that escaped the handler that ran last
    pc,             \* position of the scan in progress
    caller,         \* chat whose handle_photo called the scan, 0: a direct call
    np_img,         \* argument of detect_multi_barcodes (None when imdecode failed)
    ci,             \* index of the next contour of the loop at bot.py:258
    found_codes,    \* the set found_codes of detect_multi_barcodes
    calls,          \* decode_zbar_multi invocations of this scan, by source
    raised,         \* exception raised by the scan, "none" when none
    result,         \* list returned by detect_multi_barcodes
    origin,         \* history: accepted codes with the source that gave each first
    runs,           \* history: number of scan calls made so far
    first,          \* history: image and outcome of the first scan call
    asset_data,     \* the asset names loaded from the sheet at start-up (bot.py:46-53)
    sheet_rows,     \* number of rows appended to main_sheet
    crop,           \* argument of a direct call of try_decode_region
    sweep,          \* angle set of that call
    decoded         \* what that call gave, <<>> before it

chatVars == <<user_state, user_data>>
scanVars == <<pc, caller, np_img, ci, found_codes, calls, raised, result, origin>>
histVars == <<runs, first>>
extVars == <<asset_data, sheet_rows>>
decVars == <<crop, sweep, decoded>>
vars == <<user_state, user_data, hashseed, sent, handler_exc, pc, caller, np_img,
          ci, found_codes, calls, raised, result, origin, runs, first,
          asset_data, sheet_rows, crop, sweep, decoded>>

----------------------------------------------------------------------------
(* Payloads and images.                                                    *)

AZT1001 == <<"A","Z","T","1","0","0","1">>
AZT1002 == <<"A","Z","T","1","0","0","2">>
AZT10013025 == <<"A","Z","T","1","0","0","1","3","0","2","5">>
EAN13 == <<"1","2","3","4","5","6","7","8","9","0","1","2","8">>
AZT30001 == <<"A","Z","T","3","0","0","0","1">>
\* a payload whose bytes are not valid UTF-8
BadBytes == <<"A","Z","T","1","xFF">>

\* every text a decode can return as a str
Strings == <<AZT1001, AZT1002, AZT10013025, EAN13>>

Digits == {"0","1","2","3","4","5","6","7","8","9"}

None == [kind |-> "None"]

Range(s) == {s[k] : k \in 1..Len(s)}

----------------------------------------------------------------------------
(* Python sets of str, in the iteration order the hash seed gives them.    *)

\* position of string s in the hash order of this process
HashRank(s) == CHOOSE k \in 1..Len(hashseed) : hashseed[k] = s

\* set.add as a buggy list.append would do it
set_add_append(S, x) == Append(S, x)

\* S.add(x)
set_add(S, x) ==
    IF x \in Range(S) THEN S
    ELSE LET before == Cardinality({k \in 1..Len(S) : HashRank(S[k]) < HashRank(x)})
         IN  SubSeq(S, 1, before) \o <<x>> \o SubSeq(S, before + 1, Len(S))

\* for x in xs: S.add(x)
RECURSIVE set_update(_, _)
set_update(S, xs) ==
    IF xs = <<>> THEN S ELSE set_update(set_add(S, Head(xs)), Tail(xs))

----------------------------------------------------------------------------
(* The symbol decoder on one rotation of one array.                        *)

\* range(0,360,10)
angles == [k \in 1..36 |-> (k - 1) * 10]

\* the array rotated by angle about its centre
rotate_image(cv_img, angle) == [pix |-> cv_img, angle |-> angle]

\* pyzbar.decode: the raw payloads zbar reads from the rotated array
RECURSIVE zbar_decode(_, _)
zbar_decode(pix, angle) ==
    IF pix = <<>> THEN <<>>
    ELSE (IF Head(pix).angle = angle THEN Head(pix).syms ELSE <<>>)
         \o zbar_decode(Tail(pix), angle)

\* bytes.decode("utf-8"): the text, or UnicodeDecodeError
utf8_decode(data) ==
    IF "xFF" \in Range(data)
    THEN [raised |-> "UnicodeDecodeError", value |-> <<>>]
    ELSE [raised |-> "none", value |-> data]

\* the loop of decode_zbar_multi over the symbols zbar returned
RECURSIVE decode_out(_, _)
decode_out(barcodes, out) ==
    IF barcodes = <<>> THEN [raised |-> "none", value |-> out]
    ELSE LET t == utf8_decode(Head(barcodes))
         IN  IF t.raised # "none" THEN [raised |-> t.raised, value |-> <<>>]
             ELSE decode_out(Tail(barcodes), Append(out, t.value))

decode_zbar_multi(cv_img) == decode_out(zbar_decode(cv_img.pix, cv_img.angle), <<>>)

\* the loop of try_decode_region from the k-th angle on; n counts decoder calls
RECURSIVE try_decode_from(_, _, _, _)
try_decode_from(img, angs, k, results) ==
    IF k > Len(angs)
    THEN [raised |-> "none", value |-> results, n |-> Len(angs)]
    ELSE LET multi == decode_zbar_multi(rotate_image(img, angs[k]))
         IN  IF multi.raised # "none"
             THEN [raised |-> multi.raised, value |-> <<>>, n |-> k]
             ELSE try_decode_from(img, angs, k + 1, set_update(results, multi.value))

try_decode_region(img, angs) == try_decode_from(img, angs, 1, <<>>)

\* an acceptance test that lets every payload through
is_our_barcode_any(code) == TRUE

\* re.search(r'\d+', code): the prefix and the anchor left out
is_our_barcode_search(code) == \E k \in 1..Len(code) : code[k] \in Digits

\* re.match(r'^AZT\d+', code)
is_our_barcode(code) ==
    /\ Len(code) >= 4
    /\ code[1] = "A" /\ code[2] = "Z" /\ code[3] = "T"
    /\ code[4] \in Digits

\* for cd_ in decodes: if is_our_barcode(cd_): found_codes.add(cd_)
RECURSIVE add_ours(_, _)
add_ours(S, decodes) ==
    IF decodes = <<>> THEN S
    ELSE add_ours(IF is_our_barcode(Head(decodes)) THEN set_add(S, Head(decodes)) ELSE S,
                  Tail(decodes))

----------------------------------------------------------------------------
(* Photos.  A photo is the bytes Telegram delivers: a picture, or bytes    *)
(* that are no raster.  A picture is what the scan can observe of it: the  *)
(* external contours of its mask (bounding box and the pixels inside),     *)
(* the pixels of the whole frame, and the text printed on it.  Pixels are  *)
(* the list of (angle, payloads) at which zbar reads symbols from them.    *)

MaxContours == 2
MaxScans == 3

Hit(a, syms) == [angle |-> a, syms |-> syms]

\* the contours a mask can have: three big enough to be decoded, with a
\* matching and a foreign symbol, a symbol readable only at the last angle, and
\* a symbol whose bytes are no UTF-8; two below the size of the test, one of
\* them wide enough and not tall enough
Blobs ==
    { [w |-> 21, h |-> 21, pix |-> <<Hit(0, <<AZT1001, EAN13>>)>>],
      [w |-> 21, h |-> 21, pix |-> <<Hit(350, <<AZT1002>>)>>],
      [w |-> 21, h |-> 21, pix |-> <<Hit(10, <<BadBytes>>)>>],
      [w |-> 20, h |-> 15, pix |-> <<Hit(0, <<AZT10013025>>)>>],
      [w |-> 21, h |-> 20, pix |-> <<Hit(0, <<AZT1001>>)>>] }

BlobLists == UNION { [1..n -> Blobs] : n \in 0..MaxContours }

Frames ==
    { [pix |-> <<>>, text |-> <<>>],
      [pix |-> <<>>, text |-> AZT30001],
      [pix |-> <<Hit(0, <<AZT1001>>)>>, text |-> <<>>],
      [pix |-> <<Hit(10, <<EAN13, AZT10013025>>)>>, text |-> <<>>],
      [pix |-> <<Hit(0, <<AZT1001>>), Hit(20, <<BadBytes>>)>>, text |-> <<>>],
      [pix |-> <<Hit(45, <<AZT1002>>)>>, text |-> <<>>] }

Pictures ==
    { [kind |-> "ndarray", blobs |-> bl, pix |-> f.pix, text |-> f.text] :
        bl \in BlobLists, f \in Frames }

Garbage == [kind |-> "garbage"]

Gallery == { [kind |-> "jpeg", img |-> p] : p \in Pictures } \cup {Garbage}

\* cv2.imdecode(np.frombuffer(downloaded, np.uint8), cv2.IMREAD_COLOR)
imdecode(downloaded) == IF downloaded.kind = "jpeg" THEN downloaded.img ELSE None

\* the iteration orders a hash seed can give: all orders of the strings that
\* match the pattern; the place of EAN13, which no set of kept codes ever
\* holds, changes no list the scan returns and is fixed last
Seeds ==
    { p \in [1..Len(Strings) -> Range(Strings)] :
        /\ \A i, j \in 1..Len(Strings) : i # j => p[i] # p[j]
        /\ p[Len(Strings)] = EAN13 }

\* the seed of the bot's run
ChatSeeds == { p \in Seeds : p[1] = AZT1002 /\ p[2] = AZT10013025 }

----------------------------------------------------------------------------
(* detect_multi_barcodes, one step per loop iteration.                     *)

NoCalls == [region |-> 0, entire |-> 0]

\* history: the codes of decodes accepted for the first time, tagged with src
RECURSIVE note_origin(_, _, _)
note_origin(org, decodes, src) ==
    IF decodes = <<>> THEN org
    ELSE note_origin(
            IF is_our_barcode(Head(decodes))
               /\ \A k \in 1..Len(org) : org[k].code # Head(decodes)
            THEN Append(org, [code |-> Head(decodes), src |-> src])
            ELSE org,
            Tail(decodes), src)

\* found_codes = set() of a module-level set that is never emptied
found_codes_kept == found_codes

\* found_codes = set()
found_codes_new == <<>>

\* a size test of at least 20 px wide and 15 px tall
big_enough_min(c) == c.w >= 20 /\ c.h >= 15

\* the contour passes the size test
big_enough(c) == c.w > 20 /\ c.h > 20

\* lines 240-256: np_img.mean() raises on None; else the mask, the contours,
\* the empty set and the angles
detect_preprocess ==
    /\ pc = "detect"
    /\ IF np_img = None
       THEN /\ pc' = "raised"
            /\ raised' = "AttributeError"
            /\ UNCHANGED <<ci, found_codes>>
       ELSE /\ pc' = "regions"
            /\ ci' = 1
            /\ found_codes' = found_codes_new
            /\ UNCHANGED raised
    /\ UNCHANGED <<caller, np_img, calls, result, origin>>
    /\ UNCHANGED <<chatVars, hashseed, sent, handler_exc, histVars, extVars, decVars>>

\* lines 258-265: one iteration of the loop over the contours
detect_region ==
    /\ pc = "regions"
    /\ ci <= Len(np_img.blobs)
    /\ LET c == np_img.blobs[ci]
           decodes == try_decode_region(c.pix, angles)
       IN  IF ~big_enough(c)
           THEN /\ ci' = ci + 1
                /\ UNCHANGED <<pc, found_codes, calls, raised, origin>>
           ELSE IF decodes.raised # "none"
           THEN /\ pc' = "raised"
                /\ raised' = decodes.raised
                /\ calls' = [calls EXCEPT !.region = @ + decodes.n]
                /\ UNCHANGED <<ci, found_codes, origin>>
           ELSE /\ ci' = ci + 1
                /\ found_codes' = add_ours(found_codes, decodes.value)
                /\ calls' = [calls EXCEPT !.region = @ + decodes.n]
                /\ origin' = note_origin(origin, decodes.value, ci)
                /\ UNCHANGED <<pc, raised>>
    /\ UNCHANGED <<caller, np_img, result>>
    /\ UNCHANGED <<chatVars, hashseed, sent, handler_exc, histVars, extVars, decVars>>

\* lines 267-272: the whole image, then return list(found_codes)
detect_entire ==
    /\ pc = "regions"
    /\ ci > Len(np_img.blobs)
    /\ LET entire == try_decode_region(np_img.pix, angles)
       IN  IF entire.raised # "none"
           THEN /\ pc' = "raised"
                /\ raised' = entire.raised
                /\ calls' = [calls EXCEPT !.entire = @ + entire.n]
                /\ UNCHANGED <<found_codes, result, origin>>
           ELSE /\ pc' = "returned"
                /\ found_codes' = add_ours(found_codes, entire.value)
                /\ result' = found_codes'
                /\ calls' = [calls EXCEPT !.entire = @ + entire.n]
                /\ origin' = note_origin(origin, entire.value, 0)
                /\ UNCHANGED raised
    /\ UNCHANGED <<caller, np_img, ci>>
    /\ UNCHANGED <<chatVars, hashseed, sent, handler_exc, histVars, extVars, decVars>>

----------------------------------------------------------------------------
(* Sessions and the conversation up to the photo.  A handler runs to its   *)
(* end before the next update is taken (pc = "idle" between handlers).     *)
(* A button of a keyboard sent earlier, also by an earlier run of the      *)
(* process, can be pressed at any time.                                    *)

Chats == {1}

STATE_IDLE == "idle"
STATE_WAIT_LOCATION == "wait_location"
STATE_WAIT_INVENTORY_INPUT == "wait_inventory_input"
STATE_WAIT_PHOTO == "wait_photo"
STATE_WAIT_ASSET == "wait_asset"
STATE_WAIT_ASSET_PICK == "wait_asset_pick"
STATE_WAIT_QUANTITY == "wait_quantity"
STATE_WAIT_CONFIRM == "wait_confirm"
STATE_NEXT_STEP == "wait_next_step"
STATE_WAIT_INVENTORY_AGAIN == "wait_inventory_again"

\* an optional value: None is <<>>, a value v is <<v>>
NoneOpt == <<>>

\* the texts a user types
Texts == { <<" ", "B", " ">>, <<"1">> }

\* the text a user types for a location, an inventory code or an asset name
Names == { <<" ", "B", " ">> }

\* the first column of the asset tab as loaded at start-up: no name when the
\* tab is empty or could not be read (lines 46-53)
AssetLists == { <<>>, << <<"B">> >> }

\* the buttons of the quantity keyboard (lines 448-453)
QTY_OTHER == <<"O", "T", "H", "E", "R">>
QtyPicks == { <<"1">>, QTY_OTHER }

\* str.strip()
RECURSIVE strip(_)
strip(t) ==
    IF t = <<>> THEN t
    ELSE IF Head(t) = " " THEN strip(Tail(t))
    ELSE IF t[Len(t)] = " " THEN strip(SubSeq(t, 1, Len(t) - 1))
    ELSE t

\* d[k] = v on a dict
DictSet(d, k, v) == [x \in DOMAIN d \cup {k} |-> IF x = k THEN v ELSE d[x]]

\* a lookup that takes a chat without state for one that waits for a photo
StateGet_waiting(chat_id, default) ==
    IF chat_id \in DOMAIN user_state THEN user_state[chat_id] ELSE STATE_WAIT_PHOTO

\* user_state.get(chat_id, default)
StateGet(chat_id, default) ==
    IF chat_id \in DOMAIN user_state THEN user_state[chat_id] ELSE default

\* a session that starts in multi mode
new_session_multi ==
    [location |-> <<>>, inventory_code |-> <<>>, mode |-> "multi",
     barcodes |-> <<>>, index |-> 0, asset_name |-> <<>>, qty |-> 0,
     pending_barcode |-> NoneOpt, pending_asset |-> NoneOpt, pending_qty |-> NoneOpt]

\* the dict init_session stores
new_session ==
    [location |-> <<>>, inventory_code |-> <<>>, mode |-> "single",
     barcodes |-> <<>>, index |-> 0, asset_name |-> <<>>, qty |-> 0,
     pending_barcode |-> NoneOpt, pending_asset |-> NoneOpt, pending_qty |-> NoneOpt]

init_session(chat_id) ==
    /\ user_data' = DictSet(user_data, chat_id, new_session)
    /\ user_state' = DictSet(user_state, chat_id, STATE_IDLE)

\* a handler that ends by an uncaught exception after changing nothing
handler_raises(exc) ==
    /\ handler_exc' = exc
    /\ sent' = <<>>
    /\ UNCHANGED <<chatVars, hashseed, scanVars, histVars, extVars, decVars>>

cmd_start(chat_id) ==
    /\ pc = "idle"
    /\ init_session(chat_id)
    /\ sent' = <<"guide">>
    /\ handler_exc' = "none"
    /\ UNCHANGED <<hashseed, scanVars, histVars, extVars, decVars>>

cmd_finish(chat_id) ==
    /\ pc = "idle"
    /\ init_session(chat_id)
    /\ sent' = <<"day_finished">>
    /\ handler_exc' = "none"
    /\ UNCHANGED <<hashseed, scanVars, histVars, extVars, decVars>>

cmd_cancel(chat_id) ==
    /\ pc = "idle"
    /\ init_session(chat_id)
    /\ sent' = <<"cancelled">>
    /\ handler_exc' = "none"
    /\ UNCHANGED <<hashseed, scanVars, histVars, extVars, decVars>>

cb_enter_location(chat_id) ==
    /\ pc = "idle"
    /\ user_state' = DictSet(user_state, chat_id, STATE_WAIT_LOCATION)
    /\ sent' = <<"ask_location">>
    /\ handler_exc' = "none"
    /\ UNCHANGED <<user_data, hashseed, scanVars, histVars, extVars, decVars>>

handle_location(chat_id, text) ==
    /\ pc = "idle"
    /\ StateGet(chat_id, "None") = STATE_WAIT_LOCATION
    /\ IF chat_id \notin DOMAIN user_data
       THEN handler_raises("KeyError")
       ELSE /\ user_data' = [user_data EXCEPT ![chat_id].location = strip(text)]
            /\ sent' = <<"ask_inventory">>
            /\ handler_exc' = "none"
            /\ UNCHANGED <<user_state, hashseed, scanVars, histVars, extVars, decVars>>

\* sends the mode keyboard and sets the state
show_mode_keyboard(chat_id) ==
    user_state' = DictSet(user_state, chat_id, STATE_WAIT_PHOTO)

cb_inventory_choice(chat_id, data) ==
    /\ pc = "idle"
    /\ IF data = "INVENTORY_ENTER"
       THEN /\ user_state' = DictSet(user_state, chat_id, STATE_WAIT_INVENTORY_INPUT)
            /\ sent' = <<"ask_inventory_code">>
            /\ handler_exc' = "none"
            /\ UNCHANGED <<user_data, hashseed, scanVars, histVars, extVars, decVars>>
       ELSE IF chat_id \notin DOMAIN user_data
       THEN handler_raises("KeyError")
       ELSE /\ user_data' = [user_data EXCEPT ![chat_id].inventory_code = <<>>]
            /\ show_mode_keyboard(chat_id)
            /\ sent' = <<"pick_mode">>
            /\ handler_exc' = "none"
            /\ UNCHANGED <<hashseed, scanVars, histVars, extVars, decVars>>

handle_inventory_input(chat_id, text) ==
    /\ pc = "idle"
    /\ StateGet(chat_id, "None") = STATE_WAIT_INVENTORY_INPUT
    /\ IF chat_id \notin DOMAIN user_data
       THEN handler_raises("KeyError")
       ELSE /\ user_data' = [user_data EXCEPT ![chat_id].inventory_code = strip(text)]
            /\ show_mode_keyboard(chat_id)
            /\ sent' = <<"inventory_accepted", "pick_mode">>
            /\ handler_exc' = "none"
            /\ UNCHANGED <<hashseed, scanVars, histVars, extVars, decVars>>

pick_mode_cb(chat_id, data) ==
    /\ pc = "idle"
    /\ IF chat_id \notin DOMAIN user_data
       THEN handler_raises("KeyError")
       ELSE /\ user_data' = [user_data EXCEPT
                ![chat_id].mode = IF data = "MODE_SINGLE" THEN "single" ELSE "multi",
                ![chat_id].barcodes = <<>>,
                ![chat_id].index = 0]
            /\ user_state' = DictSet(user_state, chat_id, STATE_WAIT_PHOTO)
            /\ sent' = IF data = "MODE_SINGLE" THEN <<"single_mode">> ELSE <<"multi_mode">>
            /\ handler_exc' = "none"
            /\ UNCHANGED <<hashseed, scanVars, histVars, extVars, decVars>>

cb_stop_restart(chat_id) ==
    /\ pc = "idle"
    /\ init_session(chat_id)
    /\ sent' = <<"restarted">>
    /\ handler_exc' = "none"
    /\ UNCHANGED <<hashseed, scanVars, histVars, extVars, decVars>>

cb_finish_multi(chat_id) ==
    /\ pc = "idle"
    /\ IF chat_id \notin DOMAIN user_data
       THEN handler_raises("KeyError")
       ELSE IF user_data[chat_id].barcodes = <<>>
       THEN /\ sent' = <<"no_barcodes_yet">>
            /\ handler_exc' = "none"
            /\ UNCHANGED <<chatVars, hashseed, scanVars, histVars, extVars, decVars>>
       ELSE /\ user_data' = [user_data EXCEPT ![chat_id].index = 0]
            /\ user_state' = DictSet(user_state, chat_id, STATE_WAIT_ASSET)
            /\ sent' = <<"first_barcode">>
            /\ handler_exc' = "none"
            /\ UNCHANGED <<hashseed, scanVars, histVars, extVars, decVars>>

----------------------------------------------------------------------------
(* The photo handler.  Its call of detect_multi_barcodes runs as the steps *)
(* above; handle_photo_found is the rest of the handler after the call.    *)

\* the photos a user sends
Photos ==
    { Garbage,
      [kind |-> "jpeg", img |-> [kind |-> "ndarray", blobs |-> <<>>,
            pix |-> <<>>, text |-> AZT30001]],
      [kind |-> "jpeg", img |-> [kind |-> "ndarray", blobs |-> <<>>,
            pix |-> <<Hit(0, <<AZT1001>>)>>, text |-> <<>>]],
      [kind |-> "jpeg", img |-> [kind |-> "ndarray",
            blobs |-> << [w |-> 21, h |-> 21, pix |-> <<Hit(0, <<AZT1001, EAN13>>)>>],
                         [w |-> 21, h |-> 21, pix |-> <<Hit(350, <<AZT1002>>)>>] >>,
            pix |-> <<Hit(10, <<EAN13, AZT10013025>>)>>, text |-> <<>>]],
      [kind |-> "jpeg", img |-> [kind |-> "ndarray",
            blobs |-> << [w |-> 21, h |-> 21, pix |-> <<Hit(10, <<BadBytes>>)>>] >>,
            pix |-> <<Hit(0, <<AZT1001>>)>>, text |-> <<>>]] }

\* the call detect_multi_barcodes(img) made for chat_id (0: a direct call)
call_detect(chat_id, img) ==
    /\ pc' = "detect"
    /\ caller' = chat_id
    /\ np_img' = img
    /\ ci' = 0
    /\ calls' = NoCalls
    /\ raised' = "none"
    /\ result' = <<>>
    /\ origin' = <<>>
    /\ UNCHANGED found_codes

\* lines 308-321: the state test, the download, imdecode and the call
handle_photo(chat_id, downloaded) ==
    /\ pc = "idle"
    /\ IF StateGet(chat_id, STATE_IDLE) # STATE_WAIT_PHOTO
       THEN /\ sent' = <<"photo_rejected">>
            /\ handler_exc' = "none"
            /\ UNCHANGED <<chatVars, hashseed, scanVars, histVars, extVars, decVars>>
       ELSE /\ call_detect(chat_id, imdecode(downloaded))
            /\ sent' = <<>>
            /\ handler_exc' = "none"
            /\ UNCHANGED <<chatVars, hashseed, histVars, extVars, decVars>>

\* lines 322-324: nothing was found
no_code_reply_reset(chat_id) ==
    /\ sent' = <<"no_barcode_found">>
    /\ handler_exc' = "none"
    /\ init_session(chat_id)

no_code_reply(chat_id) ==
    /\ sent' = <<"no_barcode_found">>
    /\ handler_exc' = "none"
    /\ UNCHANGED chatVars

\* lines 327-328: the list single mode stores
single_barcodes_all(found) == found

single_barcodes(found) == <<found[1]>>

\* lines 322-359: after the call returned found, or raised
handle_photo_found ==
    /\ pc \in {"returned", "raised"}
    /\ caller \in Chats
    /\ pc' = "idle"
    /\ caller' = 0
    /\ np_img' = None
    /\ ci' = 0
    /\ calls' = NoCalls
    /\ raised' = "none"
    /\ result' = <<>>
    /\ origin' = <<>>
    /\ found_codes' = <<>>
    /\ UNCHANGED <<hashseed, histVars, extVars, decVars>>
    /\ IF pc = "raised"
       THEN /\ handler_exc' = raised
            /\ sent' = <<>>
            /\ UNCHANGED chatVars
       ELSE IF result = <<>>
       THEN no_code_reply(caller)
       ELSE IF caller \notin DOMAIN user_data
       THEN /\ handler_exc' = "KeyError"
            /\ sent' = <<>>
            /\ UNCHANGED chatVars
       ELSE IF user_data[caller].mode = "single"
       THEN /\ user_data' = [user_data EXCEPT ![caller].barcodes = single_barcodes(result)]
            /\ user_state' = DictSet(user_state, caller, STATE_WAIT_ASSET)
            /\ sent' = <<IF Len(result) > 1 THEN "took_first" ELSE "barcode", "ask_asset">>
            /\ handler_exc' = "none"
       ELSE /\ user_data' = [user_data EXCEPT ![caller].barcodes =
                                set_update(set_update(<<>>, @), result)]
            /\ sent' = <<"barcodes_found">>
            /\ handler_exc' = "none"
            /\ UNCHANGED user_state

cb_data_or_next_photo(chat_id, data) ==
    /\ pc = "idle"
    /\ IF chat_id \notin DOMAIN user_data
       THEN handler_raises("KeyError")
       ELSE IF data = "NEXT_PHOTO"
       THEN /\ sent' = <<"send_more">>
            /\ handler_exc' = "none"
            /\ UNCHANGED <<chatVars, hashseed, scanVars, histVars, extVars, decVars>>
       ELSE IF user_data[chat_id].barcodes = <<>>
       THEN /\ sent' = <<"no_barcodes_yet">>
            /\ handler_exc' = "none"
            /\ UNCHANGED <<chatVars, hashseed, scanVars, histVars, extVars, decVars>>
       ELSE /\ user_data' = [user_data EXCEPT ![chat_id].index = 0]
            /\ user_state' = DictSet(user_state, chat_id, STATE_WAIT_ASSET)
            /\ sent' = <<"first_barcode">>
            /\ handler_exc' = "none"
            /\ UNCHANGED <<hashseed, scanVars, histVars, extVars, decVars>>

----------------------------------------------------------------------------
(* Asset name, quantity and the entry summary.                             *)

\* lines 385-388: no suggestion without names, else the best `limit` names
fuzzy_suggest(query, data, limit) ==
    IF data = <<>> THEN <<>>
    ELSE SubSeq(data, 1, IF Len(data) < limit THEN Len(data) ELSE limit)

\* call.data.split("|")[1] of a button whose data is TAG|arg
RECURSIVE split_arg(_)
split_arg(arg) ==
    IF arg = <<>> \/ Head(arg) = "|" THEN <<>>
    ELSE <<Head(arg)>> \o split_arg(Tail(arg))

\* int(s) of a stripped text: its value, or <<>> for ValueError
DigitChars == <<"0", "1", "2", "3", "4", "5", "6", "7", "8", "9">>
DigitVal(c) == CHOOSE n \in 0..9 : DigitChars[n + 1] = c

RECURSIVE int_from(_, _)
int_from(s, acc) ==
    IF s = <<>> THEN acc ELSE int_from(Tail(s), 10 * acc + DigitVal(Head(s)))

int(s) ==
    IF s # <<>> /\ \A i \in 1..Len(s) : s[i] \in Digits
    THEN <<int_from(s, 0)>> ELSE <<>>

\* l[i] on a list does not raise IndexError
list_index_ok(l, i) == i >= -Len(l) /\ i < Len(l)

\* lines 446-459, after the name was stored by finalize_asset_info (439-441)
finalize_asset_info(chat_id, name_) ==
    IF chat_id \notin DOMAIN user_data
    THEN handler_raises("KeyError")
    ELSE /\ user_data' = [user_data EXCEPT ![chat_id].asset_name = name_]
         /\ user_state' = DictSet(user_state, chat_id, STATE_WAIT_QUANTITY)
         /\ sent' = <<"ask_quantity">>
         /\ handler_exc' = "none"
         /\ UNCHANGED <<hashseed, scanVars, histVars, extVars, decVars>>

handle_asset_name(chat_id, text) ==
    /\ pc = "idle"
    /\ StateGet(chat_id, "None") = STATE_WAIT_ASSET
    /\ LET q == strip(text)
           suggestions == fuzzy_suggest(q, asset_data, 3)
       IN  IF suggestions = <<>>
           THEN finalize_asset_info(chat_id, q)
           ELSE /\ user_state' = DictSet(user_state, chat_id, STATE_WAIT_ASSET_PICK)
                /\ sent' = <<"suggestions">>
                /\ handler_exc' = "none"
                /\ UNCHANGED <<user_data, hashseed, scanVars, histVars, extVars, decVars>>

handle_asset_retry(chat_id, text) ==
    /\ pc = "idle"
    /\ StateGet(chat_id, "None") = STATE_WAIT_ASSET_PICK
    /\ LET q == strip(text)
           suggestions == fuzzy_suggest(q, asset_data, 3)
       IN  IF suggestions = <<>>
           THEN finalize_asset_info(chat_id, q)
           ELSE /\ sent' = <<"suggestions">>
                /\ handler_exc' = "none"
                /\ UNCHANGED <<chatVars, hashseed, scanVars, histVars, extVars, decVars>>

cb_asset_pick(chat_id, arg) ==
    /\ pc = "idle"
    /\ finalize_asset_info(chat_id, split_arg(arg))

cb_asset_custom(chat_id, arg) ==
    /\ pc = "idle"
    /\ finalize_asset_info(chat_id, split_arg(arg))

\* lines 490-497: what the summary notes in the session
entry_summary(d) ==
    [d EXCEPT !.pending_barcode = <<d.barcodes[d.index + 1]>>,
              !.pending_asset = <<d.asset_name>>,
              !.pending_qty = <<d.qty>>]

\* lines 484-515 on the session d; the caller has stored the quantity in d
show_entry_summary(chat_id, d) ==
    IF ~list_index_ok(d.barcodes, d.index)
    THEN /\ user_data' = DictSet(user_data, chat_id, d)
         /\ handler_exc' = "IndexError"
         /\ sent' = <<>>
         /\ UNCHANGED user_state
    ELSE /\ user_data' = DictSet(user_data, chat_id, entry_summary(d))
         /\ user_state' = DictSet(user_state, chat_id, STATE_WAIT_CONFIRM)
         /\ handler_exc' = "none"
         /\ sent' = <<"summary">>

cb_qty_pick(chat_id, arg) ==
    /\ pc = "idle"
    /\ LET pick == split_arg(arg)
       IN  IF pick = QTY_OTHER
           THEN /\ sent' = <<"type_quantity">>
                /\ handler_exc' = "none"
                /\ UNCHANGED <<chatVars, hashseed, scanVars, histVars, extVars, decVars>>
           ELSE IF int(pick) = <<>>
           THEN handler_raises("ValueError")
           ELSE IF chat_id \notin DOMAIN user_data
           THEN handler_raises("KeyError")
           ELSE /\ show_entry_summary(chat_id,
                        [user_data[chat_id] EXCEPT !.qty = int(pick)[1]])
                /\ UNCHANGED <<hashseed, scanVars, histVars, extVars, decVars>>

\* lines 471-479: the bare except turns every exception into the reply
handle_qty_text(chat_id, text) ==
    /\ pc = "idle"
    /\ StateGet(chat_id, "None") = STATE_WAIT_QUANTITY
    /\ handler_exc' = "none"
    /\ UNCHANGED <<hashseed, scanVars, histVars, extVars, decVars>>
    /\ LET val == int(strip(text))
       IN  IF val = <<>> \/ chat_id \notin DOMAIN user_data
           THEN /\ sent' = <<"bad_number">>
                /\ UNCHANGED chatVars
           ELSE LET d == [user_data[chat_id] EXCEPT !.qty = val[1]]
                IN  IF ~list_index_ok(d.barcodes, d.index)
                    THEN /\ user_data' = DictSet(user_data, chat_id, d)
                         /\ sent' = <<"bad_number">>
                         /\ UNCHANGED user_state
                    ELSE /\ user_data' = DictSet(user_data, chat_id, entry_summary(d))
                         /\ user_state' = DictSet(user_state, chat_id, STATE_WAIT_CONFIRM)
                         /\ sent' = <<"summary">>

----------------------------------------------------------------------------
(* The decision on an entry, and the next step after a confirmed one.      *)

\* most rows a run appends, and the largest index a run reaches
MaxRows == 1
MaxIndex == 1

\* line 531: d["index"] += 1
next_index_same(i) == i

next_index(i) == i + 1

cb_entry_decision(chat_id, choice) ==
    /\ pc = "idle"
    /\ IF chat_id \notin DOMAIN user_data
       THEN handler_raises("KeyError")
       ELSE LET d == user_data[chat_id]
            IN  /\ handler_exc' = "none"
                /\ UNCHANGED <<hashseed, scanVars, histVars, asset_data, decVars>>
                /\ IF choice = "ENTRY_EDIT"
                   THEN /\ user_state' = DictSet(user_state, chat_id, STATE_WAIT_ASSET)
                        /\ sent' = <<"retype_asset">>
                        /\ UNCHANGED <<user_data, sheet_rows>>
                   ELSE IF choice = "ENTRY_DELETE"
                   THEN /\ UNCHANGED sheet_rows
                        /\ IF d.mode = "multi"
                           THEN /\ d.index < MaxIndex
                                /\ user_data' = [user_data EXCEPT
                                        ![chat_id].index = next_index(@)]
                                /\ IF next_index(d.index) < Len(d.barcodes)
                                   THEN /\ user_state' = DictSet(user_state, chat_id,
                                                                 STATE_WAIT_ASSET)
                                        /\ sent' = <<"deleted", "next_barcode">>
                                   ELSE /\ user_state' = DictSet(user_state, chat_id,
                                                                 STATE_WAIT_PHOTO)
                                        /\ sent' = <<"deleted", "all_done">>
                           ELSE /\ user_state' = DictSet(user_state, chat_id,
                                                         STATE_WAIT_PHOTO)
                                /\ sent' = <<"deleted", "single_done">>
                                /\ UNCHANGED user_data
                   ELSE /\ sheet_rows < MaxRows
                        /\ \/ /\ sheet_rows' = sheet_rows + 1
                              /\ sent' = <<"row_added", "next_step">>
                           \/ /\ sheet_rows' = sheet_rows
                              /\ sent' = <<"sheet_error", "next_step">>
                        /\ user_state' = DictSet(user_state, chat_id, STATE_NEXT_STEP)
                        /\ UNCHANGED user_data

cb_next_step(chat_id, data) ==
    /\ pc = "idle"
    /\ IF data = "NEXT_FINISH"
       THEN /\ init_session(chat_id)
            /\ sent' = <<"day_finished">>
            /\ handler_exc' = "none"
            /\ UNCHANGED <<hashseed, scanVars, histVars, extVars, decVars>>
       ELSE IF chat_id \notin DOMAIN user_data
       THEN handler_raises("KeyError")
       ELSE /\ user_data' = [user_data EXCEPT
                    ![chat_id].mode = IF data = "NEXT_SINGLE" THEN "single" ELSE "multi",
                    ![chat_id].barcodes = <<>>,
                    ![chat_id].index = 0]
            /\ sent' = <<"ask_inventory_again">>
            /\ handler_exc' = "none"
            /\ UNCHANGED <<user_state, hashseed, scanVars, histVars, extVars, decVars>>

cb_inv_again(chat_id, data) ==
    /\ pc = "idle"
    /\ IF data = "INV_ENTER_AGAIN"
       THEN /\ user_state' = DictSet(user_state, chat_id, STATE_WAIT_INVENTORY_AGAIN)
            /\ sent' = <<"type_inventory">>
            /\ handler_exc' = "none"
            /\ UNCHANGED <<user_data, hashseed, scanVars, histVars, extVars, decVars>>
       ELSE IF chat_id \notin DOMAIN user_data
       THEN handler_raises("KeyError")
       ELSE /\ user_data' = [user_data EXCEPT ![chat_id].inventory_code = <<>>]
            /\ user_state' = DictSet(user_state, chat_id, STATE_WAIT_PHOTO)
            /\ sent' = <<"no_inventory", "send_photo">>
            /\ handler_exc' = "none"
            /\ UNCHANGED <<hashseed, scanVars, histVars, extVars, decVars>>

handle_inv_again(chat_id, text) ==
    /\ pc = "idle"
    /\ StateGet(chat_id, "None") = STATE_WAIT_INVENTORY_AGAIN
    /\ IF chat_id \notin DOMAIN user_data
       THEN handler_raises("KeyError")
       ELSE /\ user_data' = [user_data EXCEPT ![chat_id].inventory_code = strip(text)]
            /\ user_state' = DictSet(user_state, chat_id, STATE_WAIT_PHOTO)
            /\ sent' = <<"inventory_taken">>
            /\ handler_exc' = "none"
            /\ UNCHANGED <<hashseed, scanVars, histVars, extVars, decVars>>

----------------------------------------------------------------------------
(* The bot: the process after start-up, then any update of any chat.       *)

Init ==
    /\ user_state = <<>>
    /\ user_data = <<>>
    /\ hashseed \in ChatSeeds
    /\ sent = <<>>
    /\ handler_exc = "none"
    /\ pc = "idle"
    /\ caller = 0
    /\ np_img = None
    /\ ci = 0
    /\ found_codes = <<>>
    /\ calls = NoCalls
    /\ raised = "none"
    /\ result = <<>>
    /\ origin = <<>>
    /\ runs = 0
    /\ first = <<>>
    /\ asset_data \in AssetLists
    /\ sheet_rows = 0
    /\ crop = <<>>
    /\ sweep = <<>>
    /\ decoded = <<>>

Next ==
    \/ \E c \in Chats : cmd_start(c)
    \/ \E c \in Chats : cmd_finish(c)
    \/ \E c \in Chats : cmd_cancel(c)
    \/ \E c \in Chats : cb_enter_location(c)
    \/ \E c \in Chats, t \in Names : handle_location(c, t)
    \/ \E c \in Chats, d \in {"INVENTORY_ENTER", "INVENTORY_NONE"} : cb_inventory_choice(c, d)
    \/ \E c \in Chats, t \in Names : handle_inventory_input(c, t)
    \/ \E c \in Chats, d \in {"MODE_SINGLE", "MODE_MULTI"} : pick_mode_cb(c, d)
    \/ \E c \in Chats : cb_stop_restart(c)
    \/ \E c \in Chats : cb_finish_multi(c)
    \/ \E c \in Chats, b \in Photos : handle_photo(c, b)
    \/ \E c \in Chats, d \in {"DATA_NOW", "NEXT_PHOTO"} : cb_data_or_next_photo(c, d)
    \/ \E c \in Chats, t \in Names : handle_asset_name(c, t)
    \/ \E c \in Chats, t \in Names : handle_asset_retry(c, t)
    \/ \E c \in Chats, nm \in Range(asset_data) : cb_asset_pick(c, nm)
    \/ \E c \in Chats, t \in Names : cb_asset_custom(c, strip(t))
    \/ \E c \in Chats, p \in QtyPicks : cb_qty_pick(c, p)
    \/ \E c \in Chats, t \in Texts : handle_qty_text(c, t)
    \/ \E c \in Chats, d \in {"ENTRY_EDIT", "ENTRY_DELETE", "ENTRY_CONFIRM"} :
            cb_entry_decision(c, d)
    \/ \E c \in Chats, d \in {"NEXT_SINGLE", "NEXT_MULTI", "NEXT_FINISH"} : cb_next_step(c, d)
    \/ \E c \in Chats, d \in {"INV_ENTER_AGAIN", "INV_NONE_AGAIN"} : cb_inv_again(c, d)
    \/ \E c \in Chats, t \in Names : handle_inv_again(c, t)
    \/ detect_preprocess
    \/ detect_region
    \/ detect_entire
    \/ handle_photo_found

Spec == Init /\ [][Next]_vars

----------------------------------------------------------------------------
(* The scan alone: detect_multi_barcodes called directly on any picture of *)
(* the gallery, then called again, on the first picture or on another,     *)
(* while a chat that waits for a photo has a session.                      *)

Retakes ==
    { [kind |-> "ndarray",
       blobs |-> << [w |-> 21, h |-> 21, pix |-> <<Hit(350, <<AZT1002>>)>>] >>,
       pix |-> <<Hit(10, <<EAN13, AZT10013025>>)>>, text |-> <<>>] }

ScanInit ==
    /\ user_state = DictSet(<<>>, 1, STATE_WAIT_PHOTO)
    /\ user_data = DictSet(<<>>, 1, new_session)
    /\ hashseed \in Seeds
    /\ sent = <<>>
    /\ handler_exc = "none"
    /\ pc = "detect"
    /\ caller = 0
    /\ np_img \in {imdecode(b) : b \in Gallery}
    /\ ci = 0
    /\ found_codes = <<>>
    /\ calls = NoCalls
    /\ raised = "none"
    /\ result = <<>>
    /\ origin = <<>>
    /\ runs = 1
    /\ first = <<>>
    /\ asset_data = <<>>
    /\ sheet_rows = 0
    /\ crop = <<>>
    /\ sweep = <<>>
    /\ decoded = <<>>

\* the next direct call, once the scan in progress has ended
scan_again ==
    /\ pc \in {"returned", "raised"}
    /\ caller = 0
    /\ runs < MaxScans
    /\ runs' = runs + 1
    /\ first' = IF first = <<>>
                THEN <<[img |-> np_img, raised |-> raised, result |-> result]>>
                ELSE first
    /\ \E img \in {first'[1].img} \cup Retakes : call_detect(0, img)
    /\ UNCHANGED <<chatVars, hashseed, sent, handler_exc, extVars, decVars>>

ScanNext ==
    \/ detect_preprocess
    \/ detect_region
    \/ detect_entire
    \/ scan_again

ScanSpec == ScanInit /\ [][ScanNext]_vars

----------------------------------------------------------------------------
(* What a picture holds, read off the picture and not off the scan.        *)

Ended == pc \in {"returned", "raised"}

\* the payloads zbar reads from pixels at some angle of the sweep
PayloadsOf(pix) ==
    UNION { Range(pix[k].syms) : k \in {n \in 1..Len(pix) : pix[n].angle \in Range(angles)} }

\* the contours that are cropped and decoded
Surviving(img) == {k \in 1..Len(img.blobs) : img.blobs[k].w > 20 /\ img.blobs[k].h > 20}

RegionPayloads(img) == UNION { PayloadsOf(img.blobs[k].pix) : k \in Surviving(img) }

AllPayloads(img) == RegionPayloads(img) \cup PayloadsOf(img.pix)

\* AZT followed by at least one digit, then anything
StartsWithAZTDigits(p) ==
    /\ Len(p) > 3
    /\ SubSeq(p, 1, 3) = <<"A", "Z", "T">>
    /\ \E n \in 1..(Len(p) - 3) : \A k \in 4..(3 + n) : p[k] \in Digits

\* place of a source in the order of the passes: the regions, then the whole image
SrcOrder(src) == IF src = 0 THEN Len(np_img.blobs) + 1 ELSE src

OriginOf(c) == CHOOSE o \in Range(origin) : o.code = c

----------------------------------------------------------------------------
(* C1: the list a scan returns never holds the same code twice, however    *)
(* many regions, angles and whole-image decodes gave that code.            *)
C1_NoDuplicateCodes ==
    pc = "returned" =>
        \A i, j \in 1..Len(result) : i # j => result[i] # result[j]

\* a returned scan whose two regions and whole image all gave AZT1001
C1_Witness ==
    /\ pc = "returned"
    /\ Len(np_img.blobs) = 2
    /\ Surviving(np_img) = {1, 2}
    /\ AZT1001 \in PayloadsOf(np_img.blobs[1].pix)
    /\ AZT1001 \in PayloadsOf(np_img.blobs[2].pix)
    /\ AZT1001 \in PayloadsOf(np_img.pix)
    /\ AZT1001 \in Range(result)

(* C2: the returned codes are in first-seen order: a code first given by   *)
(* an earlier region comes before a code first given by a later region,    *)
(* and both before a code first given by the whole image.                  *)
C2_FirstSeenOrder ==
    pc = "returned" =>
        \A i, j \in 1..Len(result) :
            i < j => SrcOrder(OriginOf(result[i]).src) <= SrcOrder(OriginOf(result[j]).src)

(* C3: in every scan call on a picture, the whole image is decoded at      *)
(* every angle of the sweep, with or without regions.                      *)
C3_WholeImageAlwaysDecoded ==
    (Ended /\ np_img # None) => calls.entire = Len(angles)

(* C4 as stated: with no payload from regions and whole image, the OCR     *)
(* fallback reads the printed text and its code is the result.             *)
C4_OcrFallbackResult ==
    (pc = "returned" /\ AllPayloads(np_img) = {} /\ np_img.text = AZT30001)
        => result = <<AZT30001>>

(* C4 as amended: with no payload from regions and whole image the scan    *)
(* returns the empty list, whatever text is printed on the picture, and    *)
(* the photo handler then reports that no barcode was found and changes    *)
(* neither the state nor the session of the chat.                          *)
C4_NoPayloadNoCode ==
    [][(pc = "returned" /\ AllPayloads(np_img) = {})
        => /\ result = <<>>
           /\ caller \in Chats => /\ sent' = <<"no_barcode_found">>
                                  /\ UNCHANGED chatVars]_vars

\* the scan of a chat's picture with printed text AZT30001 has returned the
\* empty list to the photo handler
C4_Witness ==
    /\ pc = "returned"
    /\ caller \in Chats
    /\ np_img # None
    /\ np_img.text = AZT30001
    /\ AllPayloads(np_img) = {}
    /\ result = <<>>

(* C5: the result of a scan holds exactly the decoded payloads, of regions *)
(* and of the whole image, that start with AZT and at least one digit.     *)
C5_AcceptedIffMatches ==
    pc = "returned" =>
        Range(result) = {p \in AllPayloads(np_img) : StartsWithAZTDigits(p)}

\* a scan that read 1234567890128 in a region and in the whole image,
\* dropped it and kept AZT10013025
C5_Witness ==
    /\ pc = "returned"
    /\ EAN13 \in RegionPayloads(np_img)
    /\ EAN13 \in PayloadsOf(np_img.pix)
    /\ EAN13 \notin Range(result)
    /\ AZT10013025 \in Range(result)

(* C6 as stated: by default no pattern is configured and every decoded     *)
(* payload is kept, 1234567890128 as well as AZT10013025.                  *)
C6_DefaultKeepsAll ==
    pc = "returned" => AllPayloads(np_img) \subseteq Range(result)

(* C6 as amended: the pattern ^AZT\d+ is fixed in the code and always      *)
(* applied: AZT10013025 is kept and 1234567890128 is dropped in every scan.*)
C6_PatternAlwaysApplied ==
    pc = "returned" =>
        /\ EAN13 \notin Range(result)
        /\ AZT10013025 \in AllPayloads(np_img) => AZT10013025 \in Range(result)

\* a scan of a picture without regions that read both payloads together
C6_Witness ==
    /\ pc = "returned"
    /\ np_img.blobs = <<>>
    /\ {EAN13, AZT10013025} \subseteq PayloadsOf(np_img.pix)
    /\ result = <<AZT10013025>>

(* C7: bytes that are no raster make the scan fail with InvalidImage,      *)
(* before any preprocessing, region detection or decode attempt.           *)
C7_InvalidImageError ==
    (Ended /\ np_img = None) =>
        /\ pc = "raised"
        /\ raised = "InvalidImage"
        /\ calls = NoCalls

(* C8: a decode attempt that fails is absorbed: the scan returns, with     *)
(* the accepted payloads of all other attempts.                            *)
C8_DecodeFailureAbsorbed ==
    (Ended /\ np_img # None /\ BadBytes \in AllPayloads(np_img)) =>
        /\ pc = "returned"
        /\ Range(result) = {p \in AllPayloads(np_img) \ {BadBytes} : StartsWithAZTDigits(p)}

C10_ReturnsWithoutRaising ==
    (Ended /\ np_img # None) =>
        /\ pc = "returned"
        /\ calls.region = Len(angles) * Cardinality(Surviving(np_img))
        /\ calls.entire = Len(angles)

----------------------------------------------------------------------------
(* Claims on the scan as a call, and on the photo handler.                 *)

\* the codes a picture holds, as the list a set of them gives in this process
ImageCodes(img) ==
    LET S == {p \in AllPayloads(img) : StartsWithAZTDigits(p)}
    IN  CHOOSE s \in [1..Cardinality(S) -> S] :
            \A i, j \in 1..Cardinality(S) : i < j => HashRank(s[i]) < HashRank(s[j])

(* C11: no step of a scan changes the state or the session of a chat, and  *)
(* a scan that returns gives the codes of the picture it was called on:    *)
(* nothing of an earlier scan, nothing of a chat.                          *)
C11_ScanOwnsNoState ==
    [][/\ UNCHANGED chatVars
       /\ pc' = "returned" => result' = ImageCodes(np_img')]_vars

\* a later scan, of another picture than the first, has returned, after the
\* first scan had returned a code this picture does not hold, while a chat
\* has a session
C11_Witness ==
    /\ pc = "returned"
    /\ runs >= 2
    /\ first # <<>>
    /\ first[1].img # np_img
    /\ Range(first[1].result) \ Range(result) # {}
    /\ 1 \in DOMAIN user_data
    /\ user_state[1] = STATE_WAIT_PHOTO


(* C12: when the scan of a chat's photo returns no code, the handler ends  *)
(* without an exception, reports that no barcode was found, leaves the     *)
(* session as it was and the chat waiting for a photo.                     *)
C12_NoCodeKeepsWaiting ==
    [][(pc = "returned" /\ caller \in Chats /\ result = <<>>)
        => /\ sent' = <<"no_barcode_found">>
           /\ handler_exc' = "none"
           /\ user_data' = user_data
           /\ caller \in DOMAIN user_state'
           /\ user_state'[caller] = STATE_WAIT_PHOTO]_vars

\* the report was sent in multi mode to a chat that keeps its location and
\* the codes of an earlier photo
C12_Witness ==
    /\ pc = "idle"
    /\ sent = <<"no_barcode_found">>
    /\ 1 \in DOMAIN user_data
    /\ user_state[1] = STATE_WAIT_PHOTO
    /\ user_data[1].mode = "multi"
    /\ user_data[1].barcodes # <<>>
    /\ user_data[1].location # <<>>


----------------------------------------------------------------------------
(* try_decode_region alone: one call on any crop with any angle set.       *)

\* what zbar can read from a crop at one angle
CropHits ==
    { Hit(0, <<AZT1001>>), Hit(0, <<AZT1001, EAN13>>), Hit(90, <<AZT1002>>),
      Hit(10, <<BadBytes>>), Hit(350, <<AZT10013025>>) }

MaxHits == 2

\* the crops: up to MaxHits readings, a crop without any among them
Crops == UNION { [1..n -> CropHits] : n \in 0..MaxHits }

\* the angle sets: every 10 degrees as the scan uses, the four right angles,
\* two angles in either order, none
Sweeps == { angles, <<0, 90, 180, 270>>, <<0, 10>>, <<10, 0>>, <<>> }

DecodeInit ==
    /\ user_state = <<>>
    /\ user_data = <<>>
    /\ hashseed \in ChatSeeds
    /\ sent = <<>>
    /\ handler_exc = "none"
    /\ pc = "idle"
    /\ caller = 0
    /\ np_img = None
    /\ ci = 0
    /\ found_codes = <<>>
    /\ calls = NoCalls
    /\ raised = "none"
    /\ result = <<>>
    /\ origin = <<>>
    /\ runs = 0
    /\ first = <<>>
    /\ asset_data = <<>>
    /\ sheet_rows = 0
    /\ crop \in Crops
    /\ sweep \in Sweeps
    /\ decoded = <<>>

\* the call try_decode_region(crop, sweep)
decode_call ==
    /\ decoded = <<>>
    /\ decoded' = <<try_decode_region(crop, sweep)>>
    /\ UNCHANGED <<chatVars, hashseed, sent, handler_exc, scanVars, histVars,
                   extVars, crop, sweep>>

DecodeNext == decode_call

DecodeSpec == DecodeInit /\ [][DecodeNext]_vars

\* the payloads zbar reads from pixels at the angles of a set
PayloadsAt(pix, angs) ==
    UNION { Range(pix[k].syms) : k \in {n \in 1..Len(pix) : pix[n].angle \in Range(angs)} }

(* C13: a call of try_decode_region calls the decoder once for each angle  *)
(* of the set and returns the union of the payloads read at any of them.   *)
C13_EveryAngleDecoded ==
    decoded # <<>> =>
        /\ decoded[1].raised = "none"
        /\ decoded[1].n = Len(sweep)
        /\ Range(decoded[1].value) = PayloadsAt(crop, sweep)


(* C14 as stated: a contour is cropped and decoded exactly when its box is *)
(* at least 20 px wide and 15 px tall.                                     *)
C14_MinRegion20x15 ==
    [][(pc = "regions" /\ ci <= Len(np_img.blobs))
        => (calls'.region > calls.region
                <=> (np_img.blobs[ci].w >= 20 /\ np_img.blobs[ci].h >= 15))]_vars

(* C14 as amended: a contour is cropped and decoded exactly when its box   *)
(* is more than 20 px wide and more than 20 px tall.                       *)
C14_RegionSizeTest ==
    [][(pc = "regions" /\ ci <= Len(np_img.blobs))
        => (calls'.region > calls.region
                <=> (np_img.blobs[ci].w > 20 /\ np_img.blobs[ci].h > 20))]_vars

\* a contour of 21 by 20 px was passed over, the next, of 21 by 21 px, was
\* decoded at every angle
C14_Witness ==
    /\ pc = "regions"
    /\ ci = 3
    /\ np_img.blobs[1].w = 21 /\ np_img.blobs[1].h = 20
    /\ np_img.blobs[2].w = 21 /\ np_img.blobs[2].h = 21
    /\ calls.region = Len(angles)


(* C15: a photo starts a scan only for a chat whose state is WAIT_PHOTO,   *)
(* and such a chat has a session; in any other state, or without state or  *)
(* session, the photo is answered by the rejection message and no scan     *)
(* starts; in both cases the handler changes neither state nor session.    *)
C15_PhotoOnlyWhenWaiting ==
    [][\A c \in Chats :
        (\E b \in Photos : handle_photo(c, b))
            => /\ UNCHANGED chatVars
               /\ IF c \in DOMAIN user_state /\ user_state[c] = "wait_photo"
                  THEN /\ pc' = "detect"
                       /\ caller' = c
                       /\ c \in DOMAIN user_data
                  ELSE /\ pc' = "idle"
                       /\ sent' = <<"photo_rejected">>]_vars

\* a photo was rejected for a chat that waits for an asset name and holds a
\* barcode
C15_Witness ==
    /\ pc = "idle"
    /\ sent = <<"photo_rejected">>
    /\ 1 \in DOMAIN user_data
    /\ user_state[1] = STATE_WAIT_ASSET
    /\ user_data[1].barcodes # <<>>


\* /start, /finish, /cancel, Stop/Restart or the finish-day button of chat c
Resets(c) ==
    \/ cmd_start(c)
    \/ cmd_finish(c)
    \/ cmd_cancel(c)
    \/ cb_stop_restart(c)
    \/ cb_next_step(c, "NEXT_FINISH")

(* C16: /start, /finish, /cancel, Stop/Restart and the finish-day button   *)
(* leave the chat in state IDLE with a fresh session, whatever its state   *)
(* and session were, and also when it had none.                            *)
C16_ResetGivesFreshSession ==
    [][\A c \in Chats :
        Resets(c)
            => /\ c \in DOMAIN user_state' /\ user_state'[c] = "idle"
               /\ c \in DOMAIN user_data'
               /\ user_data'[c].location = <<>>
               /\ user_data'[c].inventory_code = <<>>
               /\ user_data'[c].mode = "single"
               /\ user_data'[c].barcodes = <<>>
               /\ user_data'[c].index = 0
               /\ user_data'[c].qty = 0
               /\ user_data'[c].pending_barcode = <<>>
               /\ user_data'[c].pending_asset = <<>>
               /\ user_data'[c].pending_qty = <<>>]_vars

\* the day was finished after a row was appended: the chat is idle, nothing
\* of the confirmed entry is left in its session
C16_Witness ==
    /\ pc = "idle"
    /\ sent = <<"day_finished">>
    /\ sheet_rows = 1
    /\ 1 \in DOMAIN user_data
    /\ user_state[1] = STATE_IDLE
    /\ user_data[1].pending_barcode = <<>>
    /\ user_data[1].barcodes = <<>>


(* C17: in single mode, when the scan of a chat's photo returns codes, the *)
(* handler stores a list of exactly one code, one of those returned,       *)
(* whatever the list was, moves the chat to WAIT_ASSET and leaves the      *)
(* index as it was.                                                        *)
C17_SingleKeepsOneCode ==
    [][(/\ pc = "returned"
        /\ caller \in Chats
        /\ result # <<>>
        /\ caller \in DOMAIN user_data
        /\ user_data[caller].mode = "single")
        => /\ Len(user_data'[caller].barcodes) = 1
           /\ user_data'[caller].barcodes[1] \in Range(result)
           /\ user_data'[caller].index = user_data[caller].index
           /\ user_state'[caller] = "wait_asset"
           /\ handler_exc' = "none"]_vars

\* a photo with several codes was taken in single mode after a row had been
\* appended for an earlier photo: one code is held
C17_Witness ==
    /\ pc = "idle"
    /\ sent = <<"took_first", "ask_asset">>
    /\ 1 \in DOMAIN user_data
    /\ user_state[1] = STATE_WAIT_ASSET
    /\ user_data[1].mode = "single"
    /\ Len(user_data[1].barcodes) = 1
    /\ user_data[1].index = 0
    /\ sheet_rows = 1


(* C18: Delete, pressed by a chat that has a session, appends no row; in   *)
(* single mode the chat goes to WAIT_PHOTO; in multi mode the index grows  *)
(* by one and the chat goes to WAIT_ASSET when the new index is below the  *)
(* number of barcodes, to WAIT_PHOTO when it is not.                       *)
C18_DeleteMovesOn ==
    [][\A c \in Chats :
        (cb_entry_decision(c, "ENTRY_DELETE") /\ c \in DOMAIN user_data)
            => /\ sheet_rows' = sheet_rows
               /\ handler_exc' = "none"
               /\ IF user_data[c].mode = "multi"
                  THEN /\ user_data'[c].index = user_data[c].index + 1
                       /\ user_data'[c].barcodes = user_data[c].barcodes
                       /\ user_state'[c] =
                            IF user_data[c].index + 1 < Len(user_data[c].barcodes)
                            THEN "wait_asset" ELSE "wait_photo"
                  ELSE /\ user_data' = user_data
                       /\ user_state'[c] = "wait_photo"]_vars

\* the first of three barcodes was deleted in multi mode: the chat is asked
\* for the name of the second, no row was appended
C18_Witness ==
    /\ pc = "idle"
    /\ sent = <<"deleted", "next_barcode">>
    /\ 1 \in DOMAIN user_data
    /\ user_data[1].mode = "multi"
    /\ user_data[1].index = 1
    /\ Len(user_data[1].barcodes) = 3
    /\ user_state[1] = STATE_WAIT_ASSET
    /\ user_data[1].pending_barcode = <<user_data[1].barcodes[1]>>
    /\ sheet_rows = 0


(* C19: a chat whose state is set has a session, and no handler ends by    *)
(* the KeyError of an access to the session of a chat without one.         *)
C19_SessionBeforeUse ==
    /\ DOMAIN user_state \subseteq DOMAIN user_data
    /\ handler_exc # "KeyError"

\* the quantity of chat c is stored and its entry summary built: a quantity
\* button other than Other, or a quantity text that is a number
BuildsSummary(c) ==
    \/ \E p \in QtyPicks \ {QTY_OTHER} : cb_qty_pick(c, p)
    \/ \E t \in Texts : int(strip(t)) # <<>> /\ handle_qty_text(c, t)

(* C20: whenever the entry summary of a chat with a session is built, the  *)
(* index of the session is a position of its barcode list.                 *)
C20_SummaryIndexValid ==
    [][\A c \in Chats :
        (BuildsSummary(c) /\ c \in DOMAIN user_data)
            => /\ 0 <= user_data[c].index
               /\ user_data[c].index < Len(user_data[c].barcodes)]_vars

====
